---- MODULE Spec2Model ----
(***************************************************************************)
(* The pointer-driven displacement effect of the Enzari site: the Plane    *)
(* component (pointer tracker and frame driver) and the useGPGPU hook (the *)
(* feedback simulation on a ping-pong pair of textures).                   *)
(*                                                                         *)
(* Numbers.  The program computes in floating point.  The model computes   *)
(* in fixed point with three decimals: the integer n stands for n / One.   *)
(* Every product is rounded to the nearest unit.  A component of a texel   *)
(* that the shader makes NaN is flagged instead of being given a number.   *)
(***************************************************************************)
EXTENDS Integers, Sequences, FiniteSets, TLC

\* ------------------------------------------------------------- bounds
\* Frame callbacks and pointer-move events explored by Spec, which follows
\* every interleaving of the handlers over a short run.
MaxFrames == 5
MaxEvents == 2
\* The same for SpecField, which follows texels near the pointer.
MaxFieldFrames == 3
MaxFieldEvents == 2
\* The same for SpecIdle, which follows runs long enough to go idle.
MaxIdleFrames == 34
MaxIdleEvents == 1
\* Frame callbacks that may run before the hook's effect has run.
MaxPendingFrames == 1
\* the lifecycle runs: frame callbacks, pointer events, and how many times
\* the hook's effect may set the simulation up
MaxLifeFrames == 3
MaxLifeEvents == 1
MaxGenerations == 2
\* the TextSplit runs: mouse enter and leave events
MaxMouseMoves == 4
\* the texts split by TextSplit: characters per text
MaxTextLen == 3
\* the page Oto: panes on the screen, and mouse and touch events on them
MaxPanes == 2
MaxPaneEvents == 5

\* ------------------------------------------------------------- numbers
One == 10 * 100

Abs(x) == IF x < 0 THEN 0 - x ELSE x

\* n / d rounded to the nearest integer (d > 0).
Round(n, d) == (2 * n + d) \div (2 * d)

\* The fixed-point product a * b.
Mul(a, b) == Round(a * b, One)

\* The fixed-point quotient a / b (b > 0).
Div(a, b) == Round(a * One, b)

RECURSIVE SqrtSearch(_, _, _)
SqrtSearch(n, lo, hi) ==
  IF lo >= hi THEN lo
  ELSE LET mid == (lo + hi + 1) \div 2
       IN  IF mid * mid <= n THEN SqrtSearch(n, mid, hi)
           ELSE SqrtSearch(n, lo, mid - 1)

\* Math.sqrt on a non-negative integer, rounded down.
ISqrt(n) == SqrtSearch(n, 0, 46340)

\* The length of the vector (x, y): Vector2.length(), Math.sqrt(x*x + y*y)
\* and GLSL length().  Large components are scaled down before squaring.
Length(x, y) ==
  IF Abs(x) <= 30000 /\ Abs(y) <= 30000
  THEN ISqrt(x * x + y * y)
  ELSE 100 * ISqrt((x \div 100) * (x \div 100) + (y \div 100) * (y \div 100))

Vec(x, y) == [x |-> x, y |-> y]

\* Math.sign
MathSign(x) == IF x > 0 THEN One ELSE IF x < 0 THEN 0 - One ELSE 0

\* THREE.MathUtils.lerp(x, y, t) = (1 - t) * x + t * y
MathLerp(x, y, t) == Round((One - t) * x + t * y, One)

\* Vector2.lerp(v, alpha): this.x += (v.x - this.x) * alpha, and y alike
VecLerp(a, b, alpha) ==
  Vec(a.x + Mul(b.x - a.x, alpha), a.y + Mul(b.y - a.y, alpha))

\* ------------------------------------------------- program constants
\* Plane: gpgpuParams
relaxation == 2000
size == 4096
distance == 1000
\* Plane: shaderArgs.uniforms
uOilSpillSpeed == 500
uVisibilityLerpSpeed == 10
uMouseInertia == 1000
uMouseLerpSpeed == 90
uEffectVisibilityInitial == 500
\* Plane: handlePointerMove
velocityGain == 10000
oilSpillGain == 100
visibleTarget == 1000
\* Plane: useFrame
frameStep == 16
mouseIdleThreshold == 500
hiddenTarget == 0
\* useGPGPU
speedGain == 10000
distanceGain == 10000
timeStep == 16
speedDecay == 950

\* sizeRef = Math.ceil(Math.sqrt(size)), as a plain number
sizeRef == LET r == ISqrt(size) IN IF r * r = size THEN r ELSE r + 1

\* ------------------------------------------------------------- inputs
\* The UV coordinates pointer events carry in the model.
UVs == {Vec(500, 500), Vec(600, 500), Vec(600, 580)}

\* A pointer-move event: with a UV, or (event.uv undefined) without.
Events ==
  {[hasUv |-> TRUE, x |-> uv.x, y |-> uv.y] : uv \in UVs}
    \cup {[hasUv |-> FALSE, x |-> 0, y |-> 0]}

\* Milliseconds between two frame callbacks: a 60 Hz and a 30 Hz display.
FrameDeltas == {16, 33}

\* The texels followed, by their column and row in the sizeRef x sizeRef grid:
\* one far from every pointer position (Spec), and with it two in the
\* pointer's column band and one that is inside the influence radius of
\* the pointer at (0.5, 0.5) and outside it at (0.6, 0.5) (SpecField).
FarCells == {<<60, 60>>}
NearCells == {<<25, 32>>, <<38, 32>>, <<39, 32>>, <<60, 60>>}

\* ------------------------------------------------------------- state
VARIABLES
  \* Plane: the tracker's refs
  currentMousePos, targetMousePos, currentMouseDirection, targetMouseDirection,
  lastMouseX, lastMouseY, currentOilSpillOffset, targetOilSpillOffset,
  currentEffectVisibility, targetEffectVisibility, mouseMovementTimer,
  mouseVelocity,
  \* Plane: the material's uniforms the frame callback writes
  uniforms,
  \* useGPGPU: refs, and the uniforms of the simulation variable's material
  gpgpuRef, variableRef, lastMousePos, mouseSpeed, simUniforms,
  \* GPUComputationRenderer: the two render targets and the current one
  targetsReady, currentTextureIndex, buffers, disposed,
  \* React: where the hook's effect stands, and how often it has set up
  effectState, generation,
  \* the GPU: the resources created and not yet released
  acquired,
  \* the platform: capabilities and what normalize(vec2(0)) yields
  gpu,
  \* the display: the fragment of the plane painted last and its colour
  gl_FragColor,
  \* TextSplit: its props, where its animation set-up stands, the timeline
  \* tl, the scale tween of each unit, what the mouse is over
  textProps, textSetup, tl, unitTweens, pointerOver,
  \* TextSplit history: calls of onHover and onUnhover, animations started
  \* (tl.play(), tl.reverse(), gsap.to), mouse events, the last handler
  hoverCalls, animationStarts, mouseMoves, textOp,
  \* TextSplit: the children and splitBy props, and what the splitContent
  \* memo yields when the component renders
  children, splitBy, splitContent,
  \* Oto, per pane: the classes of the pane's element, gradientStates, the
  \* tweens running on the pane's gradient, and where the gradient is
  classList, gradientStates, gradientTweens, gradientY,
  \* Oto: the pane the mouse is over, the touch in progress, the last
  \* handler or callback run, and the events so far
  mouseOver, touch, otoOp, paneEvents,
  \* the display: milliseconds per frame, and THREE.Clock's elapsed time
  frameDelta, clock,
  \* history: the last handler run, its event, what its compute() did,
  \* time since the last pointer sample (or since construction), the time
  \* that had passed when the last sample came, counters, an escaped
  \* exception
  lastOp, lastEvent, lastStep, sinceSample, sampleElapsed, frames,
  pendingFrames, events, steps, errorEscaped

trackerVars ==
  <<currentMousePos, targetMousePos, currentMouseDirection,
    targetMouseDirection, lastMouseX, lastMouseY, currentOilSpillOffset,
    targetOilSpillOffset, currentEffectVisibility, targetEffectVisibility,
    mouseMovementTimer, mouseVelocity>>

simInputVars == <<lastMousePos, mouseSpeed, simUniforms>>

rendererVars ==
  <<gpgpuRef, variableRef, targetsReady, currentTextureIndex, buffers,
    disposed, effectState, generation, acquired>>

platformVars == <<gpu, frameDelta>>

paintVars == <<gl_FragColor>>

textVars ==
  <<textProps, textSetup, tl, unitTweens, pointerOver, hoverCalls,
    animationStarts, mouseMoves, textOp>>

splitVars == <<children, splitBy, splitContent>>

otoVars ==
  <<classList, gradientStates, gradientTweens, gradientY, mouseOver, touch,
    otoOp, paneEvents>>

\* The components of the pages other than Plane.
pageVars == <<textVars, splitVars, otoVars>>

historyVars ==
  <<lastOp, lastEvent, lastStep, sinceSample, sampleElapsed, frames,
    pendingFrames, events, steps, errorEscaped>>

vars ==
  <<trackerVars, uniforms, simInputVars, rendererVars, platformVars,
    paintVars, pageVars, clock, historyVars>>

\* The variables of Plane, useGPGPU and the display.
planeVars ==
  <<trackerVars, uniforms, simInputVars, rendererVars, platformVars,
    paintVars, clock, historyVars>>

\* What the handlers of TextSplit leave alone.
notTextVars == <<planeVars, splitVars, otoVars>>
\* What the handlers and callbacks of Oto leave alone.
notOtoVars == <<planeVars, textVars, splitVars>>

Null == "null"
NoStep == [count |-> 0, read |-> Null, write |-> Null]
NoEvent == [hasUv |-> FALSE, x |-> 0, y |-> 0]
NoFragment == [painted |-> FALSE]

\* A texel of the field: displacement (r, g), derived channel b, persistence
\* a; rgNaN and bNaN flag components that are NaN (their number is then 0).
ZeroTexel ==
  [r |-> 0, g |-> 0, b |-> 0, a |-> 0, rgNaN |-> FALSE, bNaN |-> FALSE]

\* The uniforms the effect gives the simulation variable's material.
InitialSimUniforms ==
  [uTime |-> 0,
   uRelaxation |-> relaxation,
   uGridSize |-> sizeRef * One,
   uMouse |-> Vec(500, 500),
   uDeltaMouse |-> Vec(0, 0),
   uMouseSpeed |-> 0,
   uDistance |-> Mul(distance, distanceGain)]

\* The uniforms of shaderArgs the frame callback writes, as constructed.
InitialUniforms ==
  [uDisplacementTexture |-> Null,
   uTime |-> 0,
   uMouseSpeed |-> 0,
   uMousePosition |-> Vec(500, 500),
   uMouseDirection |-> 0,
   uOilSpillOffset |-> 0,
   uEffectVisibility |-> uEffectVisibilityInitial]

\* ----------------------------------------------------------------- Oto
\* The panes of the page, by data-pane-id; 0 stands for no pane.
Panes == 1..MaxPanes
NoPane == 0
NoTouch == [active |-> FALSE, origin |-> NoPane]
NoOtoOp == [name |-> "mount", pane |-> NoPane]

\* gradientStates.current[paneId] as handlePaneInteraction creates it
RestingState == [isFlowingUp |-> FALSE, isFlowingDown |-> FALSE]
NoTweens == [up |-> 0, down |-> 0]

\* The page after mount: no pane has a class beyond "pane", the gradients
\* are below their panes, nothing is animated.
OtoInit ==
  /\ classList = [p \in Panes |-> {}]
  /\ gradientStates = [p \in Panes |-> RestingState]
  /\ gradientTweens = [p \in Panes |-> NoTweens]
  /\ gradientY = [p \in Panes |-> "bottom"]
  /\ mouseOver = NoPane
  /\ touch = NoTouch
  /\ otoOp = NoOtoOp
  /\ paneEvents = 0

\* Where a gradient is after a tween on it started or completed: tweens
\* that still run keep moving it (no tween of the page overwrites another);
\* with none left it rests where the tween that completed put it.
GradientAfter(tweens, rest) ==
  IF tweens.up + tweens.down > 0 THEN "moving" ELSE rest

\* Variant of StartFlowUp: the flag isFlowingDown is left as it is.
StartFlowUpKeepsDown(state) == [state EXCEPT !.isFlowingUp = TRUE]
\* state.isFlowingUp = true; state.isFlowingDown = false
StartFlowUp(state) ==
  [state EXCEPT !.isFlowingUp = TRUE, !.isFlowingDown = FALSE]

\* handlePaneInteraction(paneRef, isEntering), given the classes the
\* event handler has left on the pane: the pane's classes, flags, tweens
\* and gradient after the call.
handlePaneInteraction(pane, classes, isEntering) ==
  LET state == gradientStates[pane]
      tweens == gradientTweens[pane]
  IN  IF isEntering /\ ~state.isFlowingUp
      THEN \* start flowing up
           [classes |-> classes \cup {"active"},
            state |-> StartFlowUp(state),
            tweens |-> [tweens EXCEPT !.up = @ + 1],
            y |-> "moving"]
      ELSE IF ~isEntering /\ ~state.isFlowingDown /\ state.isFlowingUp
      THEN \* the flow-up's onComplete will handle it
           [classes |-> classes, state |-> state, tweens |-> tweens,
            y |-> gradientY[pane]]
      ELSE IF ~isEntering /\ ~state.isFlowingUp /\ ~state.isFlowingDown
      THEN \* at the top (or at rest): flow down
           [classes |-> classes \ {"active"},
            state |-> [state EXCEPT !.isFlowingDown = TRUE],
            tweens |-> [tweens EXCEPT !.down = @ + 1],
            y |-> "moving"]
      ELSE [classes |-> classes, state |-> state, tweens |-> tweens,
            y |-> gradientY[pane]]

\* An event handler of a pane: it leaves the classes given on the panes
\* (others maps each pane to its classes after the handler's own changes)
\* and calls handlePaneInteraction for pane.
PaneHandler(name, pane, others, isEntering) ==
  LET after == handlePaneInteraction(pane, others[pane], isEntering)
  IN  /\ classList' = [others EXCEPT ![pane] = after.classes]
      /\ gradientStates' = [gradientStates EXCEPT ![pane] = after.state]
      /\ gradientTweens' = [gradientTweens EXCEPT ![pane] = after.tweens]
      /\ gradientY' = [gradientY EXCEPT ![pane] = after.y]
      /\ otoOp' = [name |-> name, pane |-> pane]
      /\ paneEvents' = paneEvents + 1
      /\ UNCHANGED notOtoVars

\* onMouseEnter of a pane
paneMouseEnter(pane) ==
  /\ mouseOver = NoPane
  /\ mouseOver' = pane
  /\ PaneHandler("mouseEnter", pane,
                 [classList EXCEPT ![pane] = @ \cup {"hovering"}], TRUE)
  /\ UNCHANGED touch

\* onMouseLeave of a pane
paneMouseLeave(pane) ==
  /\ mouseOver = pane
  /\ mouseOver' = NoPane
  /\ PaneHandler("mouseLeave", pane,
                 [classList EXCEPT ![pane] = @ \ {"hovering"}], FALSE)
  /\ UNCHANGED touch

\* onTouchStart of a pane: a finger comes down on it
paneTouchStart(pane) ==
  /\ ~touch.active
  /\ touch' = [active |-> TRUE, origin |-> pane]
  /\ PaneHandler("touchStart", pane,
                 [classList EXCEPT ![pane] = @ \cup {"touching"}], TRUE)
  /\ UNCHANGED mouseOver

\* onTouchMove, delivered to the pane the touch started on: under is the
\* pane under the finger (document.elementFromPoint), or none
paneTouchMove(under) ==
  /\ touch.active
  /\ IF under # NoPane
     THEN PaneHandler("touchMove", under,
                      [p \in Panes |->
                         IF p = under THEN classList[p] \cup {"touching"}
                         ELSE classList[p] \ {"touching"}], TRUE)
     ELSE /\ otoOp' = [name |-> "touchMove", pane |-> NoPane]
          /\ paneEvents' = paneEvents + 1
          /\ UNCHANGED <<classList, gradientStates, gradientTweens,
                         gradientY>>
          /\ UNCHANGED notOtoVars
  /\ UNCHANGED <<mouseOver, touch>>

\* onTouchEnd, delivered to the pane the touch started on
paneTouchEnd ==
  /\ touch.active
  /\ touch' = NoTouch
  /\ PaneHandler("touchEnd", touch.origin,
                 [classList EXCEPT ![touch.origin] = @ \ {"touching"}],
                 FALSE)
  /\ UNCHANGED mouseOver

\* onComplete of a flow-up tween of the pane
flowUpComplete(pane) ==
  /\ gradientTweens[pane].up > 0
  /\ LET stays == classList[pane] \cap {"touching", "hovering"} # {}
         tweens == [gradientTweens[pane] EXCEPT
                      !.up = @ - 1,
                      !.down = IF stays THEN @ ELSE @ + 1]
     IN  /\ gradientStates' =
              [gradientStates EXCEPT ![pane] =
                 [isFlowingUp |-> FALSE,
                  isFlowingDown |-> IF stays THEN @.isFlowingDown ELSE TRUE]]
         /\ gradientTweens' = [gradientTweens EXCEPT ![pane] = tweens]
         /\ classList' =
              [classList EXCEPT ![pane] =
                 IF stays THEN @ ELSE @ \ {"active"}]
         /\ gradientY' =
              [gradientY EXCEPT ![pane] = GradientAfter(tweens, "top")]
  /\ otoOp' = [name |-> "flowUpComplete", pane |-> pane]
  /\ UNCHANGED <<mouseOver, touch, paneEvents>>
  /\ UNCHANGED notOtoVars

\* onComplete of a flow-down tween of the pane
flowDownComplete(pane) ==
  /\ gradientTweens[pane].down > 0
  /\ LET tweens == [gradientTweens[pane] EXCEPT !.down = @ - 1]
     IN  /\ gradientStates' =
              [gradientStates EXCEPT ![pane].isFlowingDown = FALSE]
         /\ gradientTweens' = [gradientTweens EXCEPT ![pane] = tweens]
         /\ gradientY' =
              [gradientY EXCEPT ![pane] = GradientAfter(tweens, "bottom")]
  /\ otoOp' = [name |-> "flowDownComplete", pane |-> pane]
  /\ UNCHANGED <<classList, mouseOver, touch, paneEvents>>
  /\ UNCHANGED notOtoVars

\* -- TextSplit: splitContent
\* A text is a sequence of characters, a character the sequence of its
\* UTF-16 code units: a letter, a space, a newline, and a character outside
\* the basic plane (an emoji), which is a pair of surrogates.
Characters == {<<"a">>, <<" ">>, <<"\n">>, <<"hs", "ls">>}
Texts == UNION {[1..n -> Characters] : n \in 1..MaxTextLen}

\* const content = String(children): the code units of the text in a row
RECURSIVE ContentOf(_)
ContentOf(text) ==
  IF text = <<>> THEN <<>> ELSE Head(text) \o ContentOf(Tail(text))

\* The splitBy prop: the documented names, other strings, and functions.
\* "matchA" stands for (text) => text.match(/a/g).
SplitBys ==
  [kind : {"name"},
   name : {"char", "word", "line", "custom", "constructor", "sentence"}]
    \cup [kind : {"function"}, name : {"matchA"}]

\* String.prototype.split with a separator that matches one code unit of
\* seps: the pieces between the separators, empty pieces included.
RECURSIVE Split(_, _)
Split(content, seps) ==
  IF content = <<>> THEN <<<<>>>>
  ELSE LET rest == Split(Tail(content), seps)
       IN  IF Head(content) \in seps
           THEN <<<<>>>> \o rest
           ELSE <<<<Head(content)>> \o Head(rest)>> \o Tail(rest)

NonEmpty(w) == w # <<>>

\* content.split("")
SplitChar(content) == [i \in 1..Len(content) |-> <<content[i]>>]
\* content.split(/\s+/).filter(w => w): a run of whitespace separates once,
\* which differs from separating at each unit only by empty pieces, and
\* those the filter drops
SplitWord(content) == SelectSeq(Split(content, {" ", "\n"}), NonEmpty)
\* content.split(/\n/)
SplitLine(content) == Split(content, {"\n"})
\* text.match(/a/g): the matches, or null when there is none
MatchA(content) ==
  LET hits == SelectSeq(SplitChar(content), LAMBDA u : u = <<"a">>)
  IN  IF hits = <<>> THEN [kind |-> "null"]
      ELSE [kind |-> "array", units |-> hits]

\* strategies[typeof splitBy === "function" ? "custom" : splitBy]?.(): what
\* the call yields.  strategies is an object literal, so a name such as
\* "constructor" finds a method of Object.prototype, which returns an
\* object that is no array; "custom" with a splitBy that is no function
\* calls the string.
StrategyResult(content, by) ==
  LET key == IF by.kind = "function" THEN "custom" ELSE by.name
  IN  CASE key = "char" -> [kind |-> "array", units |-> SplitChar(content)]
        [] key = "word" -> [kind |-> "array", units |-> SplitWord(content)]
        [] key = "line" -> [kind |-> "array", units |-> SplitLine(content)]
        [] key = "custom" ->
             IF by.kind = "function" THEN MatchA(content)
             ELSE [kind |-> "throws"]
        [] key = "constructor" -> [kind |-> "object"]
        [] OTHER -> [kind |-> "undefined"]

\* The splitContent memo and the splitContent.map of the render: the units
\* rendered, or threw when the render ends in a TypeError.
SplitContent(text, by) ==
  LET content == ContentOf(text)
      result == StrategyResult(content, by)
  IN  CASE result.kind = "array" -> [threw |-> FALSE, units |-> result.units]
        [] result.kind \in {"null", "undefined"} ->
             [threw |-> FALSE, units |-> <<content>>]
        [] OTHER -> [threw |-> TRUE, units |-> <<>>]

NotRendered == [threw |-> FALSE, units |-> <<>>, pending |-> TRUE]

\* The children and splitBy a TextSplit is given, before it renders.
SplitInit(texts, strategies) ==
  /\ children \in texts
  /\ splitBy \in strategies
  /\ splitContent = NotRendered

\* A TextSplit that has rendered a two-letter text by characters.
SplitRendered ==
  /\ children = <<<<"a">>, <<"a">>>>
  /\ splitBy = [kind |-> "name", name |-> "char"]
  /\ splitContent = SplitContent(children, splitBy)

\* TextSplit renders: useMemo computes splitContent, and the units are
\* mapped to elements.
renderSplitContent ==
  /\ splitContent = NotRendered
  /\ splitContent' = SplitContent(children, splitBy)
  /\ UNCHANGED <<children, splitBy>>
  /\ UNCHANGED <<planeVars, textVars, otoVars>>

\* -- TextSplit as rendered
\* The units the children are split into: splitBy "char" of a two-letter
\* text.
Units == 1..2

\* The props that matter to the set-up and the handlers.  enter, exit and
\* custom say whether animationConfig.enter, .exit and .custom are supplied;
\* onHover and onUnhover are supplied.
TextProps ==
  [trigger : {"parent", "self", "none"},
   hover : BOOLEAN,
   prefersReducedMotion : BOOLEAN,
   animation : {"fade", "slide", "custom"},
   enter : BOOLEAN, exit : BOOLEAN, custom : BOOLEAN,
   scroll : BOOLEAN]

\* The props of a TextSplit used with its defaults.
DefaultTextProps ==
  [trigger |-> "parent", hover |-> TRUE, prefersReducedMotion |-> FALSE,
   animation |-> "fade", enter |-> FALSE, exit |-> FALSE, custom |-> FALSE,
   scroll |-> FALSE]

NoTextOp == [name |-> "render", unit |-> 0]

\* TextSplit as rendered, its useGSAP callback still to run.
TextInit(propsSet) ==
  /\ textProps \in propsSet
  /\ textSetup = "pending"
  /\ tl = [items |-> <<>>, state |-> "paused"]
  /\ unitTweens = [i \in Units |-> "none"]
  /\ pointerOver = "outside"
  /\ hoverCalls = [onHover |-> 0, onUnhover |-> 0]
  /\ animationStarts = 0
  /\ mouseMoves = 0
  /\ textOp = NoTextOp

\* -- Plane as rendered
\* The refs of Plane and useGPGPU as constructed, and the surroundings.
InitRefs(cellSet, nanChoices) ==
  /\ currentMousePos = Vec(500, 500)
  /\ targetMousePos = Vec(500, 500)
  /\ currentMouseDirection = 0
  /\ targetMouseDirection = 0
  /\ lastMouseX = 500
  /\ lastMouseY = 500
  /\ currentOilSpillOffset = 0
  /\ targetOilSpillOffset = 0
  /\ currentEffectVisibility = 0
  /\ targetEffectVisibility = 0
  /\ mouseMovementTimer = 0
  /\ mouseVelocity = Vec(0, 0)
  /\ gpgpuRef = Null
  /\ variableRef = Null
  /\ lastMousePos = Vec(0, 0)
  /\ mouseSpeed = 0
  /\ simUniforms = InitialSimUniforms
  /\ targetsReady = FALSE
  /\ currentTextureIndex = 0
  /\ buffers = [i \in {0, 1} |-> [c \in cellSet |-> ZeroTexel]]
  /\ disposed = FALSE
  /\ effectState = "pending"
  /\ generation = 0
  /\ acquired = {}
  /\ gpu \in [vertexTextures : BOOLEAN, normalizeZeroNaN : nanChoices]
  /\ frameDelta \in FrameDeltas
  /\ clock = 0
  /\ lastOp = "construct"
  /\ lastEvent = NoEvent
  /\ lastStep = NoStep
  /\ sinceSample = 0
  /\ sampleElapsed = 0
  /\ frames = 0
  /\ pendingFrames = 0
  /\ events = 0
  /\ steps = 0
  /\ errorEscaped = FALSE
  /\ gl_FragColor = NoFragment

\* The state once Plane has rendered and its mesh is attached, the effect of
\* useGPGPU still to run.  cellSet is the set of texels followed, nanChoices
\* the outcomes of normalize(vec2(0)) considered (TRUE: NaN, FALSE: zero).
InitWith(cellSet, nanChoices) ==
  /\ uniforms = InitialUniforms
  /\ InitRefs(cellSet, nanChoices)
  /\ TextInit({DefaultTextProps})
  /\ SplitRendered
  /\ OtoInit

\* ----------------------------------------------------- pointer tracker
\* Variant of HasUV: the handler without its guard.
HasUVAlways(event) == TRUE
\* if (uv)
HasUV(event) == event.hasUv

\* Variants of DirectionOf: a tie keeps the previous direction; the sign
\* is taken of the negated delta.
DirectionOfRetaining(mouseDeltaX, previous) ==
  IF mouseDeltaX = 0 THEN previous ELSE MathSign(mouseDeltaX)
DirectionOfFlipped(mouseDeltaX, previous) == MathSign(0 - mouseDeltaX)
\* targetMouseDirection.current = Math.sign(mouseDeltaX); previous is the
\* value the ref held, which the assignment does not read.
DirectionOf(mouseDeltaX, previous) == MathSign(mouseDeltaX)

\* Variant of TargetVisibilityOnMove: the assignment left out.
TargetVisibilityOnMoveKept(previous) == previous
\* targetEffectVisibility.current = 1.0
TargetVisibilityOnMove(previous) == visibleTarget

\* mouseMovementTimer.current = 0
TimerOnMove(previous) == 0

\* Variant of OffsetOnMove: the offset is assigned, not accumulated.
OffsetOnMoveAssigned(previous, speed) == Mul(speed, oilSpillGain)
\* targetOilSpillOffset.current += mouseSpeed * 0.1
OffsetOnMove(previous, speed) == previous + Mul(speed, oilSpillGain)

\* useGPGPU.updateMouse(uv)
updateMouse(uv) ==
  IF variableRef = Null
  THEN UNCHANGED simInputVars
  ELSE LET currentMouse == Vec(uv.x, uv.y)
           deltaMouse == Vec(currentMouse.x - lastMousePos.x,
                             currentMouse.y - lastMousePos.y)
           speed == Mul(Length(deltaMouse.x, deltaMouse.y), speedGain)
       IN  /\ mouseSpeed' = speed
           /\ simUniforms' = [simUniforms EXCEPT !.uMouse = currentMouse,
                                                 !.uDeltaMouse = deltaMouse,
                                                 !.uMouseSpeed = speed]
           /\ lastMousePos' = currentMouse

\* Plane.handlePointerMove(event)
handlePointerMove(event) ==
  /\ effectState \in {"pending", "ran"}
  /\ events' = events + 1
  /\ lastOp' = "pointerMove"
  /\ lastEvent' = event
  /\ IF HasUV(event)
     THEN LET uv == Vec(event.x, event.y)
              mouseDeltaX == uv.x - lastMouseX
              mouseDeltaY == uv.y - lastMouseY
              newVelocity == Vec(Mul(mouseDeltaX, velocityGain),
                                 Mul(mouseDeltaY, velocityGain))
              speed == Length(mouseDeltaX, mouseDeltaY)
          IN  /\ updateMouse(uv)
              /\ mouseVelocity' =
                   VecLerp(mouseVelocity, newVelocity, One - uMouseInertia)
              /\ targetMousePos' = uv
              /\ targetMouseDirection' =
                   DirectionOf(mouseDeltaX, targetMouseDirection)
              /\ lastMouseX' = uv.x
              /\ lastMouseY' = uv.y
              /\ targetOilSpillOffset' =
                   OffsetOnMove(targetOilSpillOffset, speed)
              /\ targetEffectVisibility' =
                   TargetVisibilityOnMove(targetEffectVisibility)
              /\ mouseMovementTimer' = TimerOnMove(mouseMovementTimer)
              /\ sinceSample' = 0
              /\ sampleElapsed' = sinceSample
              /\ UNCHANGED <<currentMousePos, currentMouseDirection,
                             currentOilSpillOffset, currentEffectVisibility>>
     ELSE UNCHANGED <<trackerVars, simInputVars, sinceSample,
                     sampleElapsed>>
  /\ UNCHANGED <<uniforms, rendererVars, platformVars, paintVars, pageVars,
                 clock, lastStep, frames, pendingFrames, steps, errorEscaped>>

\* ------------------------------------------- feedback simulation step
\* Constants of the simulation's fragment shader.
lineWidth == 8
lineIntensityGain == 300
waveGain == 500
lineTurbulenceGain == 300
trailingWidthFactor == 3000
trailingGain == 300
fluidGain == 1000
turbulenceGain == 80
velocityDisplacementGain == 200
magnitudeGain == 2000
persistenceRate == 100

\* fractalNoise() lies in [0, 0.9375) and the wave term sin() * cos() in
\* [-1, 1]; the hash behind the noise is not computed: every evaluation is
\* an arbitrary value of the range, drawn here from these.
NoiseVals == {0, 500}
WaveOf(n) == IF n = 0 THEN 0 - 500 ELSE 500

\* The noise a step sees, one field per place the shader evaluates it.
NoisePicks ==
  {[vertical |-> n, wave |-> WaveOf(n), lineTurbulence |-> n, trailing |-> n,
    turbX |-> n, turbY |-> n] : n \in NoiseVals}

QuietNoise ==
  [vertical |-> 0, wave |-> 0, lineTurbulence |-> 0, trailing |-> 0,
   turbX |-> 0, turbY |-> 0]

\* gl_FragCoord.xy / resolution.xy of the texel in column c[1], row c[2]
CellUV(c) ==
  Vec(Round((2 * c[1] + 1) * One, 2 * sizeRef),
      Round((2 * c[2] + 1) * One, 2 * sizeRef))

Clamp(x, lo, hi) == IF x < lo THEN lo ELSE IF x > hi THEN hi ELSE x

\* GLSL smoothstep(edge0, edge1, x)
Smoothstep(edge0, edge1, x) ==
  LET t == Clamp(Div(x - edge0, edge1 - edge0), 0, One)
  IN  Mul(Mul(t, t), 3 * One - 2 * t)

\* float influence = 1.0 - smoothstep(0.0, uDistance/uGridSize, dist)
Influence(c, U) ==
  LET uv == CellUV(c)
      dist == Length(uv.x - U.uMouse.x, uv.y - U.uMouse.y)
  IN  One - Smoothstep(0, Div(U.uDistance, U.uGridSize), dist)

\* color.rg *= uRelaxation
Relax(v, uRelaxation) == Mul(v, uRelaxation)

\* Variant of MagnitudeChannel: the length is stored as it is.
MagnitudeChannelPlain(totalDisplacement, uRelaxation) ==
  Relax(Length(totalDisplacement.x, totalDisplacement.y), uRelaxation)
\* color.b = length(totalDisplacement) * 2.0; color.b *= uRelaxation
MagnitudeChannel(totalDisplacement, uRelaxation) ==
  Relax(Mul(Length(totalDisplacement.x, totalDisplacement.y), magnitudeGain),
        uRelaxation)

\* The shader's main() for texel c: color is the texel read from the
\* previous buffer, U the uniforms, N the noise, nanOnZero whether
\* normalize() of the zero vector yields NaN on this platform.
StepTexel(c, color, U, N, nanOnZero) ==
  LET uv == CellUV(c)
      influence == Influence(c, U)
      lineIntensity == Mul(U.uMouseSpeed, lineIntensityGain)
      lineDistance == Abs(uv.x - U.uMouse.x)
      lineDisplacement ==
        IF influence > 0 /\ lineDistance < lineWidth
        THEN Mul(Mul(N.vertical, lineIntensity), influence)
               + Mul(Mul(Mul(N.wave, lineIntensity), influence), waveGain)
               + Mul(Mul(Mul(N.lineTurbulence, lineIntensity), influence),
                     lineTurbulenceGain)
        ELSE 0
      trailingWidth == Mul(lineWidth, trailingWidthFactor)
      trailingIntensity ==
        Mul(Mul(One - Div(lineDistance - lineWidth, trailingWidth - lineWidth),
                lineIntensity), trailingGain)
      trailingDisplacement ==
        IF influence > 0 /\ lineDistance < trailingWidth
                         /\ lineDistance > lineWidth
        THEN Mul(Mul(N.trailing, trailingIntensity), influence)
        ELSE 0
      verticalDisplacement == lineDisplacement + trailingDisplacement
      fluidDirection == Vec(Mul(U.uDeltaMouse.x, fluidGain),
                            Mul(U.uDeltaMouse.y, fluidGain))
      fluidStrength ==
        Mul(Length(fluidDirection.x, fluidDirection.y), influence)
      turbulence == Mul(U.uMouseSpeed, turbulenceGain)
      turbulenceOffset == Vec(Mul(Mul(N.turbX, turbulence), influence),
                              Mul(Mul(N.turbY, turbulence), influence))
      deltaLength == Length(U.uDeltaMouse.x, U.uDeltaMouse.y)
      velocityDisplacement == Mul(deltaLength, velocityDisplacementGain)
      \* normalize(uDeltaMouse): undefined for the zero vector
      direction ==
        IF deltaLength = 0 THEN Vec(0, 0)
        ELSE Vec(Div(U.uDeltaMouse.x, deltaLength),
                 Div(U.uDeltaMouse.y, deltaLength))
      directionNaN == deltaLength = 0 /\ nanOnZero
      velocityOffset ==
        Vec(Mul(Mul(direction.x, velocityDisplacement), influence),
            Mul(Mul(direction.y, velocityDisplacement), influence))
      totalDisplacement ==
        Vec(Mul(fluidDirection.x, fluidStrength) + turbulenceOffset.x
              + velocityOffset.x,
            verticalDisplacement + Mul(fluidDirection.y, fluidStrength)
              + turbulenceOffset.y + velocityOffset.y)
      nan == color.rgNaN \/ directionNaN
  IN  [r |-> IF nan THEN 0
             ELSE Relax(color.r + totalDisplacement.x, U.uRelaxation),
       g |-> IF nan THEN 0
             ELSE Relax(color.g + totalDisplacement.y, U.uRelaxation),
       b |-> IF directionNaN THEN 0
             ELSE MagnitudeChannel(totalDisplacement, U.uRelaxation),
       a |-> Round((One - persistenceRate) * color.a
                     + persistenceRate * influence, One),
       rgNaN |-> nan,
       bNaN |-> directionNaN]

\* One dispatch of the shader over the texels followed.
StepGrid(previous, U, N, nanOnZero) ==
  [c \in DOMAIN previous |-> StepTexel(c, previous[c], U, N, nanOnZero)]

\* The noise that can matter to this step: none when no texel followed
\* is inside the influence radius or the pointer speed is zero.
NoiseFor(previous, U) ==
  IF U.uMouseSpeed > 0 /\ \E c \in DOMAIN previous : Influence(c, U) > 0
  THEN NoisePicks
  ELSE {QuietNoise}

\* ------------------------------------------ GPUComputationRenderer
\* The texture of render target i of the simulation variable.
TextureOf(i) == IF i = 0 THEN "A" ELSE "B"

\* Variant of NextTextureIndex: the step writes the target it reads.
NextTextureIndexSame(current) == current
\* compute(): the target written is the one that is not current.
NextTextureIndex(current) == IF current = 0 THEN 1 ELSE 0

\* init(): creates the variable's two render targets, or reports that the
\* platform has no vertex textures and creates nothing.
InitCreatesTargets(platform) == platform.vertexTextures

\* The GPU resources of the renderer of set-up n: the renderer's own (its
\* pass-through quad and material) and, if init() got that far, the
\* variable's two render targets.
ResourcesOf(n, withTargets) ==
  {[gen |-> n, kind |-> "renderer"]}
    \cup (IF withTargets
          THEN {[gen |-> n, kind |-> "targetA"], [gen |-> n, kind |-> "targetB"]}
          ELSE {})

\* dispose(): releases the renderer's resources and its variables' render
\* targets.
Dispose(resources, n) == {res \in resources : res.gen # n}

\* ------------------------------------------------------------ useGPGPU
\* The body of the effect when nothing in it throws: the refs, the
\* variable's uniforms and the render targets after it.
EffectBody ==
  /\ gpgpuRef' = "renderer"
  /\ variableRef' = "variable"
  /\ simUniforms' = InitialSimUniforms
  /\ targetsReady' = InitCreatesTargets(gpu)
  /\ currentTextureIndex' = 0
  /\ buffers' = [i \in {0, 1} |-> [c \in DOMAIN buffers[i] |-> ZeroTexel]]
  /\ generation' = generation + 1

\* The effect of useGPGPU: creates the renderer and its variable, sets the
\* variable's uniforms and dependencies, and calls init().
useGPGPUEffect ==
  /\ effectState = "pending"
  /\ effectState' = "ran"
  /\ EffectBody
  /\ acquired' =
       acquired \cup ResourcesOf(generation + 1, InitCreatesTargets(gpu))
  /\ lastOp' = "effect"
  /\ UNCHANGED <<trackerVars, uniforms, lastMousePos, mouseSpeed, disposed,
                 platformVars, paintVars, pageVars, clock, lastEvent,
                 lastStep, sinceSample, sampleElapsed, frames, pendingFrames,
                 events, steps, errorEscaped>>

\* The effect's cleanup: gpgpuRenderer.dispose()
useGPGPUCleanup ==
  /\ effectState = "ran"
  /\ effectState' = "cleaned"
  /\ disposed' = TRUE
  /\ acquired' = Dispose(acquired, generation)
  /\ lastOp' = "cleanup"
  /\ UNCHANGED <<trackerVars, uniforms, simInputVars, gpgpuRef, variableRef,
                 targetsReady, currentTextureIndex, buffers, generation,
                 platformVars, paintVars, pageVars, clock, lastEvent,
                 lastStep, sinceSample, sampleElapsed, frames, pendingFrames,
                 events, steps, errorEscaped>>

\* A dependency of the effect changed: React runs the cleanup of the
\* previous set-up and then the effect again, in one flush.
useGPGPURerun ==
  /\ effectState = "ran"
  /\ EffectBody
  /\ acquired' =
       Dispose(acquired, generation)
         \cup ResourcesOf(generation + 1, InitCreatesTargets(gpu))
  /\ lastOp' = "rerun"
  /\ UNCHANGED <<trackerVars, uniforms, lastMousePos, mouseSpeed, disposed,
                 effectState, platformVars, paintVars, pageVars, clock,
                 lastEvent, lastStep, sinceSample, sampleElapsed, frames,
                 pendingFrames, events, steps, errorEscaped>>

\* The effect when a call after new GPUComputationRenderer(...) throws:
\* createTexture() (before the variable exists) or init() (after it made
\* the render targets).  The effect returns no cleanup function, and React
\* takes the component down.
useGPGPUEffectThrows ==
  /\ effectState = "pending"
  /\ effectState' = "failed"
  /\ gpgpuRef' = "renderer"
  /\ generation' = generation + 1
  /\ \E stage \in {"createTexture", "init"} :
       /\ variableRef' = IF stage = "init" THEN "variable" ELSE Null
       /\ acquired' =
            acquired \cup ResourcesOf(generation + 1,
                                      stage = "init" /\ InitCreatesTargets(gpu))
  /\ errorEscaped' = TRUE
  /\ lastOp' = "effectThrew"
  /\ UNCHANGED <<trackerVars, uniforms, simInputVars, targetsReady,
                 currentTextureIndex, buffers, disposed, platformVars,
                 paintVars, pageVars, clock, lastEvent, lastStep, sinceSample,
                 sampleElapsed, frames, pendingFrames, events, steps>>

\* Variant of GetTexture: the texture of the first render target.
GetTextureFirst(ref, index) == IF ref # Null THEN TextureOf(0) ELSE Null
\* getTexture()
GetTexture(ref, index) == IF ref # Null THEN TextureOf(index) ELSE Null

\* uniforms.uTime.value += 0.016 and uniforms.uMouseSpeed.value *= 0.95
AfterCompute(U) ==
  [U EXCEPT !.uTime = U.uTime + timeStep,
            !.uMouseSpeed = Mul(U.uMouseSpeed, speedDecay)]

\* --------------------------------------------------- Plane: useFrame
\* mouseMovementTimer.current += 0.016
TimerAfterFrame(timer) == timer + frameStep

\* if (mouseMovementTimer.current > mouseIdleThreshold) target = 0.0
TargetVisibilityAfterFrame(timer, target) ==
  IF timer > mouseIdleThreshold THEN hiddenTarget ELSE target

\* Variant of VisibilityLerp: the target is taken over at once.
VisibilityLerpInstant(current, target) == target
\* currentEffectVisibility = lerp(current, target, visibilityLerpSpeed)
VisibilityLerp(current, target) ==
  MathLerp(current, target, uVisibilityLerpSpeed)

\* Variant of UniformTexture: the refresh reads the texture before the step.
UniformTextureStale(beforeCompute, afterCompute) == beforeCompute
\* compute() runs before getTexture(): the uniform gets the texture that
\* is current after the step.
UniformTexture(beforeCompute, afterCompute) == afterCompute

\* The part of the frame callback after compute(): the tracker's smoothing
\* and the refresh of the material's uniforms.  texture is getTexture().
RefreshUniforms(texture) ==
  LET position == VecLerp(currentMousePos, targetMousePos, uMouseLerpSpeed)
      direction == MathLerp(currentMouseDirection, targetMouseDirection,
                            uMouseLerpSpeed)
      offset == MathLerp(currentOilSpillOffset, targetOilSpillOffset,
                         uOilSpillSpeed)
      timer == TimerAfterFrame(mouseMovementTimer)
      target == TargetVisibilityAfterFrame(timer, targetEffectVisibility)
      visibility == VisibilityLerp(currentEffectVisibility, target)
  IN  /\ currentMousePos' = position
      /\ currentMouseDirection' = direction
      /\ currentOilSpillOffset' = offset
      /\ mouseMovementTimer' = timer
      /\ targetEffectVisibility' = target
      /\ currentEffectVisibility' = visibility
      /\ uniforms' = [uniforms EXCEPT !.uDisplacementTexture = texture,
                                      !.uTime = clock',
                                      !.uMousePosition = position,
                                      !.uMouseDirection = direction,
                                      !.uOilSpillOffset = offset,
                                      !.uEffectVisibility = visibility]
      /\ UNCHANGED <<targetMousePos, targetMouseDirection, lastMouseX,
                     lastMouseY, targetOilSpillOffset, mouseVelocity>>

\* The frame callback: compute(), then the refresh.
useFrame ==
  /\ effectState \in {"pending", "ran"}
  /\ pendingFrames' =
       IF effectState = "pending" THEN pendingFrames + 1 ELSE pendingFrames
  /\ frames' = frames + 1
  /\ clock' = clock + frameDelta
  /\ sinceSample' = sinceSample + frameDelta
  /\ lastOp' = "frame"
  /\ \/ \* no renderer yet: compute() does nothing, getTexture() is null
        /\ gpgpuRef = Null
        /\ lastStep' = NoStep
        /\ RefreshUniforms(GetTexture(gpgpuRef, currentTextureIndex))
        /\ UNCHANGED <<simInputVars, currentTextureIndex, buffers, steps,
                       errorEscaped>>
     \/ \* one step: read the current target, write the other, swap
        /\ gpgpuRef # Null
        /\ targetsReady
        /\ LET read == currentTextureIndex
               write == NextTextureIndex(currentTextureIndex)
           IN  /\ \E N \in NoiseFor(buffers[read], simUniforms) :
                    buffers' = [buffers EXCEPT ![write] =
                      StepGrid(buffers[read], simUniforms, N,
                               gpu.normalizeZeroNaN)]
               /\ currentTextureIndex' = write
               /\ lastStep' = [count |-> 1, read |-> TextureOf(read),
                               write |-> TextureOf(write)]
               /\ steps' = steps + 1
               /\ simUniforms' = AfterCompute(simUniforms)
               /\ RefreshUniforms(
                    UniformTexture(GetTexture(gpgpuRef, read),
                                   GetTexture(gpgpuRef, write)))
        /\ UNCHANGED <<lastMousePos, mouseSpeed, errorEscaped>>
     \/ \* init() created no targets: compute() reads renderTargets[i] of an
        \* empty list and throws; the rest of the callback does not run
        /\ gpgpuRef # Null
        /\ ~targetsReady
        /\ lastStep' = NoStep
        /\ errorEscaped' = TRUE
        /\ UNCHANGED <<trackerVars, uniforms, simInputVars,
                       currentTextureIndex, buffers, steps>>
  /\ UNCHANGED <<gpgpuRef, variableRef, targetsReady, disposed, effectState,
                 generation, acquired, platformVars, paintVars, pageVars,
                 events, lastEvent, sampleElapsed>>

\* ------------------------------------- Plane: the fragment shader
\* Values of shaderArgs.uniforms that nothing writes after construction.
uIntensity == 1200
uStepCount == 100000
uStepSize == 1000
uPatternOpacity == 750
uStepRadius == 100
\* mod(t + uOilSpillOffset, 6.0): the length of the colour ramp
rampLength == 6000
edgeThreshold == 150

\* GLSL mix(x, y, a)
Mix(x, y, a) == Round((One - a) * x + a * y, One)
Mix3(x, y, a) == [i \in 1..3 |-> Mix(x[i], y[i], a)]
Scale3(x, k) == [i \in 1..3 |-> Mul(x[i], k)]

\* sin(x), x in thousandths of a radian, by Bhaskara's approximation on a
\* half period
SinHalf(x) ==
  LET p == x * (3142 - x)
  IN  Round(16 * p, (5 * 3142 * 3142 - 4 * p) \div One)
Sin(x) ==
  LET y == x % 6283
  IN  IF y <= 3142 THEN SinHalf(y) ELSE 0 - SinHalf(y - 3142)

\* The six colours of the ramp, color1 .. color6.
RampColors ==
  <<<<1000, 100, 900>>, <<400, 100, 1000>>, <<100, 800, 1000>>,
    <<800, 200, 1000>>, <<200, 600, 1000>>, <<1000, 300, 800>>>>

\* Variant of NormalizedT: the sum is not wrapped.
NormalizedTUnwrapped(t, offset) == t + offset
\* float normalizedT = mod(t + uOilSpillOffset, 6.0)
NormalizedT(t, offset) == (t + offset) % rampLength

\* oilSpillColor(t)
oilSpillColor(t, U) ==
  LET normalizedT == NormalizedT(t, U.uOilSpillOffset)
      index == normalizedT \div One
      fract == normalizedT - index * One
      from == IF index \in 0..4 THEN RampColors[index + 1] ELSE RampColors[6]
      to == IF index \in 0..4 THEN RampColors[index + 2] ELSE RampColors[1]
      shimmer == Mul(Sin(Mul(t, 25000) + Mul(U.uTime, 800)), 150) + 850
  IN  Scale3(Mix3(from, to, fract), shimmer)

\* The values fractalNoise() takes in createStepPattern are not computed:
\* three octaves put it in [0, 0.875), and a paint draws them from these.
\* reversedEdge is what smoothstep(1.0, 0.85, x) yields, which GLSL leaves
\* undefined for edge0 >= edge1: the usual clamp formula, or zero.
PaintNoise ==
  [animatedNoise1 : {0, 400}, animatedNoise2 : {200},
   animatedNoise3 : {600}, splatterNoise1 : {0, 300}, splatterNoise2 : {100},
   reversedEdge : {"formula", "zero"}]

\* The arguments createStepPattern passes to oilSpillColor: colorTime1..3
\* and those of chromaticRed, chromaticGreen, chromaticBlue.
FluidFlow(N) ==
  Mul(N.animatedNoise1, 350) + Mul(N.animatedNoise2, 250)
    + Mul(N.animatedNoise3, 200) + Mul(N.splatterNoise1, 150)
    + Mul(N.splatterNoise2, 50)
ColorTimes(U, N) ==
  <<Mul(U.uTime, 400) + Mul(FluidFlow(N), 3000) + U.uOilSpillOffset,
    Mul(U.uTime, 300) + Mul(N.animatedNoise1, 4000)
      + Mul(U.uOilSpillOffset, 800),
    Mul(U.uTime, 200) + Mul(N.splatterNoise1, 5000)
      + Mul(U.uOilSpillOffset, 600)>>
ChromaticTimes(U, N) ==
  LET base == Mul(U.uTime, 300) + Mul(FluidFlow(N), 2000)
  IN  <<base, base + 500, base + One>>

\* createStepPattern(uv)
createStepPattern(uv, U, N) ==
  LET distanceToMouse ==
        Length(uv.x - U.uMousePosition.x, uv.y - U.uMousePosition.y)
      falloff == One - Smoothstep(0, uStepRadius, distanceToMouse)
      stepPosition == Mul(Mul(uv.x, uStepCount), uStepSize) % One
      colorTimes == ColorTimes(U, N)
      fluidOilSpill ==
        Mix3(Mix3(oilSpillColor(colorTimes[1], U),
                  oilSpillColor(colorTimes[2], U), N.animatedNoise1),
             oilSpillColor(colorTimes[3], U), N.splatterNoise1)
      adjustedStepPosition ==
        IF U.uMouseDirection > 0 THEN One - stepPosition ELSE stepPosition
      glassBrightness == One - adjustedStepPosition
      reversed ==
        IF N.reversedEdge = "zero" THEN 0
        ELSE LET t == Clamp(Div(One - glassBrightness, edgeThreshold), 0, One)
             IN  Mul(Mul(t, t), 3 * One - 2 * t)
      edgeFactor == Mul(Smoothstep(0, edgeThreshold, glassBrightness), reversed)
      chromaticTimes == ChromaticTimes(U, N)
      chromaticStrength == Mul(edgeFactor, 800)
      bright == glassBrightness > 50
      stepColor ==
        IF bright
        THEN Mix3(Mix3(Mix3(fluidOilSpill,
                            oilSpillColor(chromaticTimes[1], U),
                            Mul(chromaticStrength, 300)),
                       oilSpillColor(chromaticTimes[2], U),
                       Mul(chromaticStrength, 300)),
                  oilSpillColor(chromaticTimes[3], U),
                  Mul(chromaticStrength, 400))
        ELSE <<0, 0, 0>>
      alpha == IF bright THEN Mul(glassBrightness, U.uEffectVisibility) ELSE 0
      texture == Mul(Mul(FluidFlow(N), 30), U.uEffectVisibility)
  IN  IF falloff <= 0
      THEN [rgb |-> <<0, 0, 0>>, a |-> 0]
      ELSE [rgb |-> Scale3([i \in 1..3 |-> stepColor[i] + texture], falloff),
            a |-> Mul(alpha, falloff)]

\* main() of the fragment shader at vUv = uv
FragmentMain(uv, U, N) ==
  LET stepPattern == createStepPattern(uv, U, N)
      alpha == Mul(stepPattern.a, uPatternOpacity)
      finalColor == Mix3(<<0, 0, 0>>, stepPattern.rgb, alpha)
  IN  [rgb |-> Scale3(finalColor, uIntensity), a |-> alpha]

\* The fragments painted: on the pointer, in the steps next to it, at the
\* rim of the step radius, and outside it.
Fragments == {Vec(500, 500), Vec(503, 520), Vec(548, 470), Vec(900, 900)}

\* The display paints one fragment of the plane with the material's
\* uniforms as they stand.
paint ==
  /\ \E uv \in Fragments, N \in PaintNoise :
       gl_FragColor' = [painted |-> TRUE, uv |-> uv, noise |-> N,
                        color |-> FragmentMain(uv, uniforms, N)]
  /\ lastOp' = "paint"
  /\ UNCHANGED <<trackerVars, uniforms, simInputVars, rendererVars,
                 platformVars, pageVars, clock, lastEvent, lastStep,
                 sinceSample, sampleElapsed, frames, pendingFrames, events,
                 steps, errorEscaped>>

\* ------------------------------------------------------- TextSplit
\* const config = animationConfig.custom || presets[animation]: the object
\* whose enter and exit the set-up calls; presets has no entry "custom".
ConfigOf(props) ==
  IF props.custom THEN "animationConfig.custom"
  ELSE IF props.animation \in {"fade", "slide"}
       THEN "presets." \o props.animation
       ELSE "undefined"

\* The callback of useGSAP: the animation set-up.
animationSetup ==
  /\ textSetup = "pending"
  /\ textOp' = [name |-> "animationSetup", unit |-> 0]
  /\ LET config == ConfigOf(textProps)
         enter == [producedBy |-> config \o ".enter", position |-> "end"]
         exit == [producedBy |-> config \o ".exit", position |-> "<"]
     IN  IF textProps.prefersReducedMotion
         THEN /\ textSetup' = "skipped"
              /\ tl' = tl
         ELSE IF config = "undefined"
         THEN \* config.enter() of undefined throws, after tl.clear()
              /\ textSetup' = "threw"
              /\ tl' = [tl EXCEPT !.items = <<>>]
         ELSE /\ textSetup' = "done"
              /\ tl' = [tl EXCEPT !.items =
                          IF textProps.scroll \/ ~textProps.exit
                          THEN <<enter>>
                          ELSE <<enter, exit>>]
  /\ UNCHANGED <<textProps, unitTweens, pointerOver, hoverCalls,
                 animationStarts, mouseMoves>>
  /\ UNCHANGED notTextVars

\* A mouse event reaches the component: it is mounted, and the pointer goes
\* from where it was to where the event says.
MouseMove(name, unit, from, to) ==
  /\ textSetup \in {"done", "skipped"}
  /\ pointerOver = from
  /\ pointerOver' = to
  /\ mouseMoves' = mouseMoves + 1
  /\ textOp' = [name |-> name, unit |-> unit]
  /\ UNCHANGED <<textProps, textSetup>>
  /\ UNCHANGED notTextVars

\* The wrapper's onMouseEnter and onMouseLeave, which it has when trigger
\* is "parent": hover && !prefersReducedMotion && tl.current.play() and
\* ... && tl.current.reverse()
WrapperHandler(state) ==
  IF textProps.trigger = "parent" /\ textProps.hover
       /\ ~textProps.prefersReducedMotion
  THEN /\ tl' = [tl EXCEPT !.state = state]
       /\ animationStarts' = animationStarts + 1
       /\ UNCHANGED <<unitTweens, hoverCalls>>
  ELSE UNCHANGED <<tl, animationStarts, unitTweens, hoverCalls>>

wrapperMouseEnter ==
  /\ MouseMove("wrapperMouseEnter", 0, "outside", "wrapper")
  /\ WrapperHandler("playing")

wrapperMouseLeave ==
  /\ MouseMove("wrapperMouseLeave", 0, "wrapper", "outside")
  /\ WrapperHandler("reversed")

\* createHandlers(index).onMouseEnter and .onMouseLeave, which a unit has
\* when trigger is "self": the scale tween unless motion is reduced, then
\* the callback.
UnitHandler(index, tween, callback) ==
  IF textProps.trigger = "self"
  THEN /\ IF ~textProps.prefersReducedMotion
          THEN /\ unitTweens' = [unitTweens EXCEPT ![index] = tween]
               /\ animationStarts' = animationStarts + 1
          ELSE UNCHANGED <<unitTweens, animationStarts>>
       /\ hoverCalls' = [hoverCalls EXCEPT ![callback] = @ + 1]
       /\ tl' = tl
  ELSE UNCHANGED <<tl, animationStarts, unitTweens, hoverCalls>>

unitMouseEnter(index) ==
  /\ MouseMove("unitMouseEnter", index, "wrapper", "unit")
  /\ UnitHandler(index, "grow", "onHover")

unitMouseLeave(index) ==
  /\ MouseMove("unitMouseLeave", index, "unit", "wrapper")
  /\ textOp.unit = index
  /\ UnitHandler(index, "shrink", "onUnhover")

\* ------------------------------------------------------ specifications
\* The handlers, with the run bounded to maxFrames frame callbacks and
\* maxEvents pointer-move events.
Bounded(maxFrames, maxEvents) ==
  \/ useGPGPUEffect
  \/ /\ events < maxEvents
     /\ \E event \in Events : handlePointerMove(event)
  \/ /\ frames < maxFrames
     /\ effectState = "pending" => pendingFrames < MaxPendingFrames
     /\ useFrame
  \/ useGPGPUCleanup

Init == InitWith(FarCells, BOOLEAN)
Next == Bounded(MaxFrames, MaxEvents)
Spec == Init /\ [][Next]_vars

InitField == InitWith(NearCells, BOOLEAN)
NextField == Bounded(MaxFieldFrames, MaxFieldEvents)
SpecField == InitField /\ [][NextField]_vars

InitIdle == InitWith(FarCells, {TRUE})
NextIdle == Bounded(MaxIdleFrames, MaxIdleEvents)
SpecIdle == InitIdle /\ [][NextIdle]_vars

\* The lifecycle of the hook's effect: as above, and the effect may throw
\* part-way or run again after a change of its dependencies.
InitLifecycle == InitWith(FarCells, {TRUE})
NextLifecycle ==
  \/ Bounded(MaxLifeFrames, MaxLifeEvents)
  \/ useGPGPUEffectThrows
  \/ /\ generation < MaxGenerations
     /\ useGPGPURerun
SpecLifecycle == InitLifecycle /\ [][NextLifecycle]_vars

\* The fragment shader on its own: the material's uniforms are any of
\* these values of time, pointer direction, flow offset and visibility,
\* and the display paints.
PaintTimes == {0, 1250, 7000}
PaintOffsets == {0, 90, 2600, 7300}
PaintUniforms ==
  {[InitialUniforms EXCEPT !.uTime = time, !.uMouseDirection = direction,
                           !.uOilSpillOffset = offset,
                           !.uEffectVisibility = visibility] :
     time \in PaintTimes, direction \in {0 - One, 0, One},
     offset \in PaintOffsets, visibility \in {0, One}}
InitPaint ==
  /\ uniforms \in PaintUniforms
  /\ InitRefs(FarCells, {TRUE})
  /\ gpu.vertexTextures
  /\ frameDelta = 16
  /\ TextInit({DefaultTextProps})
  /\ SplitRendered
  /\ OtoInit
NextPaint == paint
SpecPaint == InitPaint /\ [][NextPaint]_vars

\* TextSplit on its own, with any props: its set-up, then the mouse
\* entering and leaving the wrapper and the units.
InitText ==
  /\ uniforms = InitialUniforms
  /\ InitRefs(FarCells, {TRUE})
  /\ gpu.vertexTextures
  /\ frameDelta = 16
  /\ TextInit(TextProps)
  /\ SplitRendered
  /\ OtoInit
NextText ==
  \/ animationSetup
  \/ /\ mouseMoves < MaxMouseMoves
     /\ wrapperMouseEnter
  \/ /\ mouseMoves < MaxMouseMoves
     /\ wrapperMouseLeave
  \/ /\ mouseMoves < MaxMouseMoves
     /\ \E index \in Units : unitMouseEnter(index)
  \/ /\ mouseMoves < MaxMouseMoves
     /\ \E index \in Units : unitMouseLeave(index)
SpecText == InitText /\ [][NextText]_vars

\* The splitting of TextSplit on its own: any text, any splitBy, and the
\* component renders.
InitSplit ==
  /\ uniforms = InitialUniforms
  /\ InitRefs(FarCells, {TRUE})
  /\ gpu.vertexTextures
  /\ frameDelta = 16
  /\ TextInit({DefaultTextProps})
  /\ SplitInit(Texts, SplitBys)
  /\ OtoInit
NextSplit == renderSplitContent
SpecSplit == InitSplit /\ [][NextSplit]_vars

\* The panes of Oto on their own: mouse and touch events in any order, and
\* the tweens they start complete at any time after.
InitOto ==
  /\ uniforms = InitialUniforms
  /\ InitRefs(FarCells, {TRUE})
  /\ gpu.vertexTextures
  /\ frameDelta = 16
  /\ TextInit({DefaultTextProps})
  /\ SplitRendered
  /\ OtoInit
TweenCompletes ==
  \E pane \in Panes : flowUpComplete(pane) \/ flowDownComplete(pane)
NextOto ==
  \/ /\ paneEvents < MaxPaneEvents
     /\ \E pane \in Panes : paneMouseEnter(pane)
  \/ /\ paneEvents < MaxPaneEvents
     /\ \E pane \in Panes : paneMouseLeave(pane)
  \/ /\ paneEvents < MaxPaneEvents
     /\ \E pane \in Panes : paneTouchStart(pane)
  \/ /\ paneEvents < MaxPaneEvents
     /\ \E under \in Panes \cup {NoPane} : paneTouchMove(under)
  \/ /\ paneEvents < MaxPaneEvents
     /\ paneTouchEnd
  \/ \E pane \in Panes : flowUpComplete(pane)
  \/ \E pane \in Panes : flowDownComplete(pane)
SpecOto == InitOto /\ [][NextOto]_vars
\* The same with gsap's ticker running: a tween that runs completes.
SpecOtoFair == SpecOto /\ WF_vars(TweenCompletes)

\* ------------------------------------------------------------ claims
\* The displacement magnitude |(r, g)| of a texel.
Magnitude(texel) == Length(texel.r, texel.g)

\* A step of the frame callback in which its refresh ran (compute() did
\* not throw), and one in which a simulation step ran as well.
FrameRefreshed == lastOp' = "frame" /\ (gpgpuRef = Null \/ targetsReady)
FrameStepped == lastOp' = "frame" /\ gpgpuRef # Null /\ targetsReady

\* A step of handlePointerMove whose event carried a UV, and one whose
\* event carried none.
Sampled == lastOp' = "pointerMove" /\ lastEvent'.hasUv
SampledNoUv == lastOp' = "pointerMove" /\ ~lastEvent'.hasUv

\* C1.  In a frame that follows another frame with no pointer sample in
\* between, the displacement magnitude of every texel after the frame is
\* at most its magnitude before the frame times the relaxation factor,
\* and is not larger than before.  (Stated for texels whose displacement
\* is a number before and after the frame.)
C1_IdleFrameDecays ==
  [][(FrameStepped /\ lastOp = "frame") =>
       \A c \in DOMAIN buffers[0] :
         LET before == buffers[currentTextureIndex][c]
             after == buffers'[currentTextureIndex'][c]
         IN  (~before.rgNaN /\ ~after.rgNaN) =>
               /\ Magnitude(after) <= Mul(Magnitude(before), relaxation)
               /\ Magnitude(after) <= Magnitude(before)]_vars

\* C2.  Every simulation step reads one buffer and writes the other one.
C2_StepReadsOtherBuffer ==
  lastStep.count = 1 => lastStep.read # lastStep.write

C2_Witness == lastStep.count = 1 /\ lastStep.read = "B" /\ steps >= 2

\* C3.  A pointer sample whose horizontal delta against the previous sample
\* is not zero sets the target direction to +1 if the delta is positive and
\* to -1 if it is negative.
C3_DirectionFollowsDelta ==
  [][(Sampled /\ lastEvent'.x # lastMouseX) =>
       targetMouseDirection' =
         IF lastEvent'.x > lastMouseX THEN One ELSE 0 - One]_vars

C3_Witness ==
  /\ lastOp = "pointerMove"
  /\ lastEvent.hasUv
  /\ targetMouseDirection = 0 - One

\* C4, as claimed.  A pointer sample whose horizontal delta is zero leaves
\* the target direction as it was.
C4_TieRetainsDirection ==
  [][(Sampled /\ lastEvent'.x = lastMouseX) =>
       targetMouseDirection' = targetMouseDirection]_vars

\* C4, amended.  A pointer sample whose horizontal delta is zero sets the
\* target direction to 0, whatever it was.
C4_TieZeroesDirection ==
  [][(Sampled /\ lastEvent'.x = lastMouseX) =>
       targetMouseDirection' = 0]_vars

\* A tie after the pointer had a direction: the smoothed direction still
\* carries it.
C4_Witness ==
  /\ lastOp = "pointerMove"
  /\ lastEvent.hasUv
  /\ targetMouseDirection = 0
  /\ currentMouseDirection # 0

\* C5.  Once 0.5 time-units have passed since the last pointer sample, the
\* target visibility is 0 after the next frame callback and after every
\* later one: it is 0 after any frame callback before which 0.5
\* time-units had already passed.  (Stated for frame callbacks whose
\* compute() did not throw.)
C5_IdleHidesTarget ==
  (/\ lastOp = "frame"
   /\ ~errorEscaped
   /\ sinceSample - frameDelta >= mouseIdleThreshold)
    => targetEffectVisibility = hiddenTarget

\* C6.  A pointer sample with a UV sets the idle accumulator to zero, and a
\* frame callback adds to it the time elapsed for that frame.
C6_TimerTracksFrameDelta ==
  [][/\ Sampled => mouseMovementTimer' = 0
     /\ FrameRefreshed =>
          mouseMovementTimer' = mouseMovementTimer + frameDelta]_vars

\* C7.  After a pointer sample with a UV the target visibility is 1: it is
\* what the next frame callback starts from.
C7_SampleShowsEffect ==
  (lastOp = "pointerMove" /\ lastEvent.hasUv)
    => targetEffectVisibility = One

\* A sample that arrives after frames have run with the effect hidden.
C7_Witness ==
  /\ lastOp = "pointerMove"
  /\ lastEvent.hasUv
  /\ frames > 0
  /\ currentEffectVisibility = 0
  /\ targetEffectVisibility = One

\* x lies strictly between a and b.
StrictlyBetween(x, a, b) == (a < x /\ x < b) \/ (b < x /\ x < a)

C9_NoUvIsNoOp ==
  [][SampledNoUv =>
       /\ UNCHANGED <<trackerVars, simInputVars, uniforms>>
       /\ errorEscaped' = errorEscaped]_vars

\* An event without a UV that arrives after a sample has set the tracker.
C9_Witness ==
  /\ lastOp = "pointerMove"
  /\ ~lastEvent.hasUv
  /\ targetEffectVisibility = One
  /\ lastMouseX # 500

\* C10, as claimed.  Every frame callback performs exactly one simulation
\* step, and the displacement texture it hands to the material is the one
\* that step wrote.
C10_EveryFrameSteps ==
  [][lastOp' = "frame" =>
       /\ steps' = steps + 1
       /\ lastStep'.count = 1
       /\ uniforms'.uDisplacementTexture = lastStep'.write]_vars

\* C10, amended.  A frame callback that runs with the renderer created and
\* initialised performs exactly one simulation step, with or without a
\* pointer sample since the previous frame, and hands the material the
\* texture that step wrote; a frame callback that runs before the effect
\* has stored the renderer, or after init() created no targets, performs
\* no step.
C10_FrameStepsWhenReady ==
  [][lastOp' = "frame" =>
       IF gpgpuRef # Null /\ targetsReady
       THEN /\ steps' = steps + 1
            /\ lastStep'.count = 1
            /\ uniforms'.uDisplacementTexture = lastStep'.write
            /\ simUniforms'.uTime = simUniforms.uTime + timeStep
       ELSE /\ steps' = steps
            /\ lastStep'.count = 0]_vars

\* A frame that steps although no sample arrived since the frame before.
C10_Witness ==
  /\ lastOp = "frame"
  /\ lastStep.count = 1
  /\ steps >= 2
  /\ sinceSample > frameDelta
  /\ uniforms.uDisplacementTexture = lastStep.write

\* C11.  At the end of a frame callback whose refresh ran, the material's
\* uniforms hold the texture that is current after the step and the
\* tracker's smoothed values of that frame: position, direction, flow
\* offset and visibility, and for the speed the pointer speed the program
\* holds (the hook's mouseSpeed, or its decayed copy in the simulation's
\* uniforms).
C11_UniformsAreCurrent ==
  [][FrameRefreshed =>
       /\ uniforms'.uDisplacementTexture =
            GetTexture(gpgpuRef', currentTextureIndex')
       /\ uniforms'.uMousePosition = currentMousePos'
       /\ uniforms'.uMouseDirection = currentMouseDirection'
       /\ uniforms'.uOilSpillOffset = currentOilSpillOffset'
       /\ uniforms'.uEffectVisibility = currentEffectVisibility'
       /\ uniforms'.uMouseSpeed \in {mouseSpeed', simUniforms'.uMouseSpeed}]_vars

\* C12.  Whenever the set-up of the simulation has been left (the cleanup
\* ran on unmount, the effect ran again, or the effect threw part-way after
\* creating the renderer) every resource of the set-up that was left is
\* released: the only resources held are those of the set-up in use.
C12_SetUpReleasesOnExit ==
  \A res \in acquired : effectState = "ran" /\ res.gen = generation

\* C13.  When init() of the computation renderer reported a failure and
\* created no render targets, the effect is skipped: no simulation step is
\* issued on that renderer and no error escapes from a frame callback.
C13_FailedInitSkipsEffect ==
  (gpgpuRef # Null /\ ~targetsReady) => (steps = 0 /\ ~errorEscaped)

\* C14.  The relaxation factor of the step is below 1, and a texel that
\* receives no contribution in a step (it lies outside the influence
\* radius) and whose displacement is not zero has, after the step, a
\* displacement that is still not zero and strictly smaller than before.
C14_RelaxationShrinks ==
  [][FrameStepped =>
       \A c \in DOMAIN buffers[0] :
         LET before == buffers[currentTextureIndex][c]
             after == buffers'[currentTextureIndex'][c]
         IN  (/\ Influence(c, simUniforms) = 0
              /\ ~before.rgNaN
              /\ ~after.rgNaN
              /\ Magnitude(before) > 0) =>
               /\ simUniforms.uRelaxation < One
               /\ 0 < Magnitude(after)
               /\ Magnitude(after) < Magnitude(before)]_vars

\* C15.  No step of the program decreases the target flow offset or the
\* smoothed flow offset, and the flow offset a frame callback hands to the
\* material is never below the one the material held.
C15_FlowOffsetMonotone ==
  [][/\ targetOilSpillOffset' >= targetOilSpillOffset
     /\ currentOilSpillOffset' >= currentOilSpillOffset
     /\ uniforms'.uOilSpillOffset >= uniforms.uOilSpillOffset]_vars

\* A frame after two samples that moved the pointer: the smoothed offset
\* handed over is on its way up to a target that was raised twice.
C15_Witness ==
  /\ lastOp = "frame"
  /\ events = 2
  /\ targetOilSpillOffset = Mul(100, oilSpillGain) + Mul(80, oilSpillGain)
  /\ uniforms.uOilSpillOffset > 0
  /\ uniforms.uOilSpillOffset < targetOilSpillOffset

\* The material's uniforms with 6.0 added to the flow offset.
OffsetRaised(U) == [U EXCEPT !.uOilSpillOffset = @ + rampLength]

\* C16, as claimed.  The colour and alpha of a painted fragment are the
\* same when 6.0 is added to the flow-offset uniform.
C16_OffsetPeriodSix ==
  gl_FragColor.painted =>
    FragmentMain(gl_FragColor.uv, OffsetRaised(uniforms), gl_FragColor.noise)
      = gl_FragColor.color

\* C16, amended.  For every argument with which the painted fragment
\* evaluated oilSpillColor, the colour oilSpillColor returns for that
\* argument is the same when 6.0 is added to the flow-offset uniform, and
\* so is the fragment's alpha.
C16_RampPeriodSix ==
  gl_FragColor.painted =>
    LET N == gl_FragColor.noise
        colorTimes == ColorTimes(uniforms, N)
        chromaticTimes == ChromaticTimes(uniforms, N)
    IN  /\ \A i \in 1..3 :
             /\ oilSpillColor(colorTimes[i], OffsetRaised(uniforms))
                  = oilSpillColor(colorTimes[i], uniforms)
             /\ oilSpillColor(chromaticTimes[i], OffsetRaised(uniforms))
                  = oilSpillColor(chromaticTimes[i], uniforms)
        /\ FragmentMain(gl_FragColor.uv, OffsetRaised(uniforms), N).a
             = gl_FragColor.color.a

\* A visible fragment inside the step radius, painted with a flow offset
\* that is not zero.
C16_Witness ==
  /\ gl_FragColor.painted
  /\ uniforms.uOilSpillOffset > 0
  /\ gl_FragColor.color.a > 0
  /\ gl_FragColor.color.rgb[1] > 0

\* C17.  The pointer speed handed to the simulation on a sample is the
\* length of the sample's delta divided by the time elapsed since the
\* previous sample, times a fixed constant: for two consecutive samples
\* with deltas that are not zero and elapsed times that are not zero, the
\* quotient speed * elapsed / length is the same (to within a twentieth).
C17_SpeedDividesByElapsed ==
  [][(/\ Sampled
      /\ variableRef # Null
      /\ sinceSample > 0
      /\ sampleElapsed > 0
      /\ mouseSpeed > 0
      /\ mouseSpeed' > 0) =>
       LET before ==
             mouseSpeed * sampleElapsed
               * Length(simUniforms'.uDeltaMouse.x, simUniforms'.uDeltaMouse.y)
           now ==
             mouseSpeed' * sinceSample
               * Length(simUniforms.uDeltaMouse.x, simUniforms.uDeltaMouse.y)
       IN  Abs(now - before) <= before \div 20]_vars

\* A step in which the mouse enters or leaves the wrapper or a unit.
MouseStep == mouseMoves' = mouseMoves + 1

\* C18.  When the hover prop is false, no mouse enter or leave on the
\* wrapper or on a unit starts an animation, whatever the trigger: the
\* timeline is neither played nor reversed and no unit gets a scale tween.
C18_HoverOffStartsNothing ==
  [][(MouseStep /\ ~textProps.hover) =>
       /\ animationStarts' = animationStarts
       /\ tl' = tl
       /\ unitTweens' = unitTweens]_vars

\* A component whose hover interactions are on: hover is true and motion
\* is not reduced.
HoverEnabled == textProps.hover /\ ~textProps.prefersReducedMotion

\* C19.  With hover interactions on, a hover that starts (the mouse enters
\* the wrapper with trigger "parent", or a unit with trigger "self") calls
\* onHover once, and a hover that ends calls onUnhover once.
C19_HoverCallsBack ==
  [][HoverEnabled =>
     /\ (\/ textOp'.name = "wrapperMouseEnter" /\ textProps.trigger = "parent"
         \/ textOp'.name = "unitMouseEnter" /\ textProps.trigger = "self")
          => hoverCalls' = [hoverCalls EXCEPT !.onHover = @ + 1]
     /\ (\/ textOp'.name = "wrapperMouseLeave" /\ textProps.trigger = "parent"
         \/ textOp'.name = "unitMouseLeave" /\ textProps.trigger = "self")
          => hoverCalls' = [hoverCalls EXCEPT !.onUnhover = @ + 1]]_vars

\* C20.  When animationConfig.enter is supplied, the enter animation the
\* set-up has placed on the timeline is the one that function produced,
\* and when animationConfig.exit is supplied the exit animation placed is
\* the one that function produced.  (Stated for a set-up without scroll
\* and without animationConfig.custom, the complete override.)
C20_ConfigEnterIsUsed ==
  (textSetup = "done" /\ ~textProps.scroll /\ ~textProps.custom) =>
    /\ textProps.enter =>
         tl.items[1].producedBy = "animationConfig.enter"
    /\ textProps.exit =>
         /\ Len(tl.items) = 2
         /\ tl.items[2].producedBy = "animationConfig.exit"

\* The characters of a text that are not whitespace, in a row, and the
\* number of newlines in a content.
RECURSIVE Letters(_)
Letters(text) ==
  IF text = <<>> THEN <<>>
  ELSE (IF Head(text) \in {<<" ">>, <<"\n">>} THEN <<>> ELSE Head(text))
         \o Letters(Tail(text))
Newlines(content) ==
  Cardinality({i \in 1..Len(content) : content[i] = "\n"})

\* C21.  A rendered TextSplit with a text that is not empty has as its
\* units: one per character for "char"; for "word" tokens that are not
\* empty, hold no whitespace and together are the text without its
\* whitespace; for "line" one segment more than there are newlines, none
\* holding a newline; for a function what it returned, or the whole text in
\* one unit if that was falsy; and the whole text in one unit for any other
\* strategy name.  No render ends in an error.
C21_UnitsFollowStrategy ==
  ~("pending" \in DOMAIN splitContent) =>
    LET content == ContentOf(children)
        units == splitContent.units
    IN  /\ ~splitContent.threw
        /\ CASE splitBy.kind = "function" ->
                  units = IF MatchA(content).kind = "array"
                          THEN MatchA(content).units ELSE <<content>>
             [] splitBy.name = "char" ->
                  /\ Len(units) = Len(children)
                  /\ \A i \in 1..Len(children) : units[i] = children[i]
             [] splitBy.name = "word" ->
                  /\ \A i \in 1..Len(units) :
                       /\ units[i] # <<>>
                       /\ \A j \in 1..Len(units[i]) :
                            units[i][j] \notin {" ", "\n"}
                  /\ ContentOf(units) = Letters(children)
             [] splitBy.name = "line" ->
                  /\ Len(units) = Newlines(content) + 1
                  /\ \A i \in 1..Len(units) : Newlines(units[i]) = 0
             [] OTHER -> units = <<content>>

\* C22.  In a simulation step, a texel at a distance from the pointer of at
\* least the influence radius (its influence is zero) gets no contribution:
\* its displacement after the step is a number, and is its displacement
\* before the step times the relaxation factor, whatever the pointer delta
\* and speed, a zero delta included.
C22_FarTexelOnlyRelaxes ==
  [][FrameStepped =>
       \A c \in DOMAIN buffers[0] :
         LET before == buffers[currentTextureIndex][c]
             after == buffers'[currentTextureIndex'][c]
         IN  (Influence(c, simUniforms) = 0 /\ ~before.rgNaN) =>
               /\ ~after.rgNaN
               /\ after.r = Relax(before.r, simUniforms.uRelaxation)
               /\ after.g = Relax(before.g, simUniforms.uRelaxation)]_vars

\* What a step added to a texel before relaxing it: the displacement after
\* the step with the relaxation undone, less the displacement before.
Contribution(before, after, uRelaxation) ==
  Vec(Div(after.r, uRelaxation) - before.r,
      Div(after.g, uRelaxation) - before.g)

\* C23, as stated.  After a simulation step the magnitude channel of each
\* texel is twice the length of the texel's new displacement, the
\* accumulated and relaxed one stored by the same step (up to the rounding
\* of the arithmetic; for texels whose displacement is a number).
C23_MagnitudeOfStored ==
  [][FrameStepped =>
       \A c \in DOMAIN buffers[0] :
         LET after == buffers'[currentTextureIndex'][c]
         IN  ~after.rgNaN =>
               Abs(after.b - 2 * Magnitude(after)) <= 4]_vars

\* C23, amended.  After a simulation step the magnitude channel of each
\* texel whose displacement is a number is twice the length of what this
\* step added to the displacement, times the relaxation factor; what the
\* texel had accumulated before the step does not enter it.
C23_MagnitudeOfContribution ==
  [][FrameStepped =>
       \A c \in DOMAIN buffers[0] :
         LET before == buffers[currentTextureIndex][c]
             after == buffers'[currentTextureIndex'][c]
             added == Contribution(before, after, simUniforms.uRelaxation)
         IN  ~after.rgNaN =>
               /\ ~after.bNaN
               /\ after.b = Relax(2 * Length(added.x, added.y),
                                  simUniforms.uRelaxation)]_vars

\* A step has added to a texel that had a displacement already, and the
\* magnitude channel is not twice the length of the stored displacement.
C23_Witness ==
  /\ lastOp = "frame"
  /\ lastStep # NoStep
  /\ \E c \in DOMAIN buffers[0] :
       LET after == buffers[currentTextureIndex][c]
           before == buffers[1 - currentTextureIndex][c]
           added == Contribution(before, after, simUniforms.uRelaxation)
       IN  /\ ~after.rgNaN
           /\ Magnitude(before) > 0
           /\ Length(added.x, added.y) > 0
           /\ after.b > 0
           /\ Abs(after.b - 2 * Magnitude(after)) > 4

\* C24.  A simulation step leaves exactly one of the two buffers current,
\* namely the one it wrote, and getTexture() called after the step returns
\* that buffer: the frame callback hands it to the material.
C24_WrittenBufferIsCurrent ==
  [][FrameStepped =>
       LET current == GetTexture(gpgpuRef', currentTextureIndex')
       IN  /\ Cardinality({i \in {0, 1} : TextureOf(i) = current}) = 1
           /\ TextureOf(currentTextureIndex') = lastStep'.write
           /\ current = lastStep'.write
           /\ uniforms'.uDisplacementTexture = current]_vars

\* The second step of a renderer made by a re-run of the effect: it wrote
\* the buffer the renderer started with.
C24_Witness ==
  /\ lastOp = "frame"
  /\ generation = 2
  /\ lastStep.count = 1
  /\ lastStep.write = "A"
  /\ GetTexture(gpgpuRef, currentTextureIndex) = "A"

\* C26.  For every pointer sample that carries a UV, the first one after
\* mount included, the delta handed to the simulation (uDeltaMouse) is the
\* delta the tracker computes for the same sample: the sample's UV less the
\* UV of the previous sample, which is (0.5, 0.5) before the first sample.
\* (Stated for samples that arrive once the simulation variable exists.)
C26_SimulationDeltaIsTrackerDelta ==
  [][(Sampled /\ variableRef # Null) =>
       simUniforms'.uDeltaMouse =
         Vec(lastEvent'.x - lastMouseX, lastEvent'.y - lastMouseY)]_vars

\* C28.  For every pane, in every state reached by any interleaving of
\* enter events, leave events and tween completions, the flags isFlowingUp
\* and isFlowingDown are not both true.
C28_FlagsExclusive ==
  \A pane \in Panes :
    ~(gradientStates[pane].isFlowingUp /\ gradientStates[pane].isFlowingDown)

\* A pane was entered again while its gradient was flowing down: it flows
\* up, and a flow-down tween is still running.
C28_Witness ==
  \E pane \in Panes :
    /\ otoOp = [name |-> "mouseEnter", pane |-> pane]
    /\ gradientStates[pane].isFlowingUp
    /\ gradientTweens[pane].down > 0

\* C29.  For every pane, in every state reached by any interleaving of
\* enter events, leave events and tween completions, isFlowingDown is true
\* exactly while a flow-down tween started by handlePaneInteraction runs on
\* the pane's gradient, and isFlowingUp exactly while a flow-up tween runs
\* on it.
C29_FlagsTrackTweens ==
  \A pane \in Panes :
    /\ gradientStates[pane].isFlowingDown <=> gradientTweens[pane].down > 0
    /\ gradientStates[pane].isFlowingUp <=> gradientTweens[pane].up > 0

\* The half of C29 about the flow-up: isFlowingUp is true exactly while a
\* flow-up tween runs, and no two run at once.
FlowUpTracked ==
  \A pane \in Panes :
    /\ gradientStates[pane].isFlowingUp <=> gradientTweens[pane].up > 0
    /\ gradientTweens[pane].up <= 1

\* The pane is hovered or touched.
Interacting(pane) == classList[pane] \cap {"touching", "hovering"} # {}

\* The interaction with the pane has just ended (mouse leave, or the end of
\* a touch that started on it) with the gradient flowing up.
EndedWhileFlowingUp(pane) ==
  /\ otoOp \in {[name |-> "mouseLeave", pane |-> pane],
                [name |-> "touchEnd", pane |-> pane]}
  /\ gradientStates[pane].isFlowingUp

\* The flow-up of the pane has just completed; and what it left behind: a
\* flow-down started and no "active" class if the pane was neither hovered
\* nor touched, and otherwise the gradient at the top, with no flow-down.
FlowUpCompleted(pane) == otoOp = [name |-> "flowUpComplete", pane |-> pane]
CompletedAsClaimed(pane) ==
  IF Interacting(pane)
  THEN /\ gradientY[pane] = "top"
       /\ ~gradientStates[pane].isFlowingDown
  ELSE /\ gradientStates[pane].isFlowingDown
       /\ gradientTweens[pane].down > 0
       /\ "active" \notin classList[pane]

\* C25.  If the interaction with a pane ends while its gradient is flowing
\* up, the flow-up runs to completion, and then a flow-down starts and the
\* class "active" is removed, unless the pane is hovered or touched when
\* the flow-up completes: then the gradient stays at the top.
C25_FlowUpCompletesThenDown ==
  \A pane \in Panes :
    EndedWhileFlowingUp(pane) ~>
      (FlowUpCompleted(pane) /\ CompletedAsClaimed(pane))

\* The flow-up itself always runs to completion after such an end.
FlowUpRunsToCompletion ==
  \A pane \in Panes : EndedWhileFlowingUp(pane) ~> FlowUpCompleted(pane)

\* What remains of C25 when flow-downs started earlier may still run: the
\* flow-up completes, and leaves behind what is claimed or, on a pane that
\* is hovered or touched, no new flow-down but an earlier one running.
FlowUpCompletesApartFromEarlier ==
  \A pane \in Panes :
    EndedWhileFlowingUp(pane) ~>
      /\ FlowUpCompleted(pane)
      /\ \/ CompletedAsClaimed(pane)
         \/ /\ Interacting(pane)
            /\ ~gradientStates[pane].isFlowingDown
            /\ "active" \in classList[pane]
            /\ gradientTweens[pane].down > 0

\* A touch has just ended, and nothing interacts with the page after it:
\* no event follows, and the mouse is over no pane.
TouchEndedForGood ==
  /\ otoOp.name = "touchEnd"
  /\ paneEvents = MaxPaneEvents
  /\ mouseOver = NoPane

\* C27.  After a touch that starts on a pane, moves over other panes and
\* ends, no pane has the class "touching"; and with no further interaction
\* every pane whose gradient was raised gets a flow-down started and loses
\* the class "active": in the end no pane is active and every gradient is
\* back at the bottom.
C27_TouchLeavesNothingRaised ==
  /\ [](otoOp.name = "touchEnd" =>
          \A pane \in Panes : "touching" \notin classList[pane])
  /\ \A pane \in Panes :
       TouchEndedForGood ~>
         ("active" \notin classList[pane] /\ gradientY[pane] = "bottom")

====
